---- MODULE Spec2Model ----
(***************************************************************************)
(* Authentication / session lifecycle of the platform's auth-service       *)
(* (services/auth-service) over its two stores: the credential store (the  *)
(* "users" table of database.py) and the session store (Redis).            *)
(*                                                                         *)
(* Strings that the code inspects character by character or compares       *)
(* across fields (emails, usernames, login identifiers) are sequences of   *)
(* one-character strings.  Optional values (Optional[User], a Redis GET    *)
(* that may return None) are sets with at most one element.                *)
(*                                                                         *)
(* crud.py queries User; it is taken to be the mapped class User of        *)
(* database.py (the only class with a password_hash column).  The columns  *)
(* full_name, created_at and updated_at are read by no handler and are not *)
(* part of the state.                                                      *)
(***************************************************************************)
EXTENDS Integers, Sequences, FiniteSets, TLC

VARIABLES
    users,     \* credential store: the rows of table "users"
    redis,     \* session store: key -> [value, expire_at]
    now,       \* wall clock, whole seconds (datetime.utcnow())
    nextId,    \* the next fresh primary key (uuid.uuid4)
    issued,    \* every token string a login has returned so far
    revoked,   \* tokens logged out and not returned by a login since
    resp,      \* the last HTTP exchange: operation, presented input, response
    reg,       \* registration requests in flight, per worker process
    vfy,       \* verify requests in flight, per worker process
    http_client,  \* api-gateway: state of app.state.http_client
    gw,           \* api-gateway: the last exchange and what it sent to backends
    gw_before,    \* api-gateway: status of the exchange before the last one
    metrics       \* api-gateway: the MetricsMiddleware instance and its dispatches

authvars == <<users, redis, now, nextId, issued, revoked, resp, reg, vfy>>
gwvars == <<http_client, gw, gw_before, metrics>>
vars == <<users, redis, now, nextId, issued, revoked, resp, reg, vfy,
          http_client, gw, gw_before, metrics>>

----------------------------------------------------------------------------
(* Bounds of the model *)

MaxUsers == 2
MaxTokens == 2
MaxSeconds == 1
MaxRequests == 3

(* Configuration: shared/config Settings *)

jwt_expire_minutes == 1440
jwt_secret == "jwt_secret"
AttackerSecret == "other_secret"

----------------------------------------------------------------------------
(* Character classes of the validate_email pattern *)

Lower == {"a","b","c","d","e","f","g","h","i","j","k","l","m",
          "n","o","p","q","r","s","t","u","v","w","x","y","z"}
Upper == {"A","B","C","D","E","F","G","H","I","J","K","L","M",
          "N","O","P","Q","R","S","T","U","V","W","X","Y","Z"}
Digit == {"0","1","2","3","4","5","6","7","8","9"}
LocalChar  == Lower \cup Upper \cup Digit \cup {".", "_", "%", "+", "-"}
DomainChar == Lower \cup Upper \cup Digit \cup {".", "-"}
TldChar    == Lower \cup Upper

AllIn(s, lo, hi, class) == \A k \in lo..hi : s[k] \in class

(* re.match(r'^[a-zA-Z0-9._%+-]+@[a-zA-Z0-9.-]+\.[a-zA-Z]{2,}$', email):    *)
(* "$" also matches just before one trailing newline.                      *)
MatchesUpTo(email, n) ==
    \E at \in 2..n : \E dot \in (at + 2)..(n - 2) :
        /\ email[at] = "@"
        /\ email[dot] = "."
        /\ AllIn(email, 1, at - 1, LocalChar)
        /\ AllIn(email, at + 1, dot - 1, DomainChar)
        /\ AllIn(email, dot + 1, n, TldChar)

validate_email(email) ==
    \/ MatchesUpTo(email, Len(email))
    \/ /\ Len(email) > 0
       /\ email[Len(email)] = "\n"
       /\ MatchesUpTo(email, Len(email) - 1)

----------------------------------------------------------------------------
(* Inputs *)

AliceMail == <<"a", "@", "x", ".", "c", "o">>
BobMail   == <<"b", "@", "x", ".", "c", "o">>
BadMail   == <<"a", "@", "x">>
Alice     == <<"a">>
Bob       == <<"b">>

Emails     == {AliceMail, BobMail, BadMail}
Usernames  == {Alice, AliceMail}
Passwords  == {"pw123", "wrong"}
Salts      == {"salt"}

(* POST /register body: email, username, password, optional role/is_active *)
RegisterBodies ==
    {[email |-> e, username |-> u, password |-> "pw123",
      role |-> o[1], is_active |-> o[2]] :
        e \in Emails, u \in Usernames,
        o \in {<<"absent", "absent">>, <<"admin", "false">>}}

(* POST /login body *)
LoginBodies == [username : Usernames, password : Passwords]

(* The two accounts of the session-lifecycle specification *)
SessionRegisterBodies ==
    {[email |-> AliceMail, username |-> Alice, password |-> "pw123",
      role |-> "absent", is_active |-> "absent"],
     [email |-> BobMail, username |-> Bob, password |-> "pw123",
      role |-> "admin", is_active |-> "absent"]}
SessionLoginBodies == [username : {Alice, Bob}, password : Passwords]

----------------------------------------------------------------------------
(* Password hashing: bcrypt with a random salt kept inside the hash *)

hash_password(password, salt) ==
    [salt |-> salt, digest |-> <<"bcrypt", salt, password>>]

verify_password(plain_password, hashed_password) ==
    hashed_password.digest = <<"bcrypt", hashed_password.salt, plain_password>>

----------------------------------------------------------------------------
(* Token codec: HS256 is a deterministic MAC of the payload under the key  *)

jwt_encode(payload, key) == [payload |-> payload, sig |-> <<key, payload>>]

(* jwt.decode: InvalidSignatureError, then ExpiredSignatureError (exp <= now) *)
jwt_decode(token, key, t) ==
    IF token.sig # <<key, token.payload>> THEN [error |-> "InvalidSignature"]
    ELSE IF token.payload.exp <= t THEN [error |-> "ExpiredSignature"]
    ELSE [error |-> "none"]

create_access_token(data, secret_key, expires_seconds, t) ==
    jwt_encode([sub |-> data.sub, username |-> data.username,
                email |-> data.email, role |-> data.role,
                exp |-> t + expires_seconds], secret_key)

(* Optional[Dict]: {payload} on success, {} (None) on any PyJWTError *)
verify_token(token, secret_key, t) ==
    IF jwt_decode(token, secret_key, t).error = "none"
    THEN {token.payload} ELSE {}

----------------------------------------------------------------------------
(* Identifiers and keys *)

StrOfId(id) == <<"uuid", id>>       \* str(user.id)
UUID(s) == s[2]                     \* UUID(user_id)
TokenKey(sub) == <<"token:", sub>>  \* f"token:{user_id}"

----------------------------------------------------------------------------
(* Credential store: UserCRUD over table "users" (unique email, username)  *)

get(us, user_id) == {u \in us : u.id = user_id}
get_by_email(us, email) == {u \in us : u.email = email}
get_by_username(us, username) == {u \in us : u.username = username}

(* The unique indexes and the primary key, enforced at db.commit()         *)
IntegrityError(us, row) ==
    \E u \in us : u.id = row.id \/ u.email = row.email \/ u.username = row.username

(* UserCreate(UserBase): role defaults to VIEWER, is_active to True        *)
UserCreate(body) ==
    [email |-> body.email, username |-> body.username, password |-> body.password,
     role |-> IF body.role = "absent" THEN "viewer" ELSE body.role,
     is_active |-> IF body.is_active = "absent" THEN TRUE ELSE body.is_active = "true"]

NewRow(user_data, id, salt) ==
    [id |-> id, email |-> user_data.email, username |-> user_data.username,
     password_hash |-> hash_password(user_data.password, salt),
     role |-> user_data.role, is_active |-> user_data.is_active,
     last_login |-> {}]

(* UserCRUD.create: db.add + db.commit; the commit raises on a duplicate   *)
create(us, user_data, id, salt) ==
    IF IntegrityError(us, NewRow(user_data, id, salt))
    THEN [raised |-> TRUE, users |-> us]
    ELSE [raised |-> FALSE, users |-> us \cup {NewRow(user_data, id, salt)}]

(* Mutant: the last-login column is left alone                             *)
update_last_login_skipped(us, user_id, t) == us

update_last_login(us, user_id, t) ==
    {IF u.id = user_id THEN [u EXCEPT !.last_login = {t}] ELSE u : u \in us}

(* UserCRUD.update with user_data = UserUpdate(is_active=...)              *)
update(us, user_id, is_active) ==
    {IF u.id = user_id THEN [u EXCEPT !.is_active = is_active] ELSE u : u \in us}

delete(us, user_id) == {u \in us : u.id # user_id}

(* response_model=User: the row without its password hash                  *)
UserOut(u) ==
    [id |-> u.id, email |-> u.email, username |-> u.username,
     role |-> u.role, is_active |-> u.is_active]

----------------------------------------------------------------------------
(* Session store: Redis SETEX / GET / DEL, values are bytes                *)

Bytes(s) == <<"bytes", s>>          \* what redis-py stores for a str
Decode(b) == b[2]                   \* stored_token.decode()

(* Mutant: SET ... NX, an existing session record is kept                  *)
redis_setex_keep_existing(r, key, ttl, value, t) ==
    IF key \in DOMAIN r THEN r
    ELSE [k \in DOMAIN r \cup {key} |->
            IF k = key THEN [value |-> Bytes(value), expire_at |-> t + ttl] ELSE r[k]]

redis_setex(r, key, ttl, value, t) ==
    [k \in DOMAIN r \cup {key} |->
        IF k = key THEN [value |-> Bytes(value), expire_at |-> t + ttl] ELSE r[k]]

redis_get(r, key, t) ==
    IF key \in DOMAIN r /\ r[key].expire_at > t THEN {r[key].value} ELSE {}

redis_delete(r, key) == [k \in DOMAIN r \ {key} |-> r[k]]

(* Keys whose TTL has run out are gone                                     *)
redis_expire(r, t) == [k \in {x \in DOMAIN r : r[x].expire_at > t} |-> r[k]]

----------------------------------------------------------------------------
(* Verify requests in flight.  verify_token_endpoint reads the session     *)
(* store and then the credential store in two round trips; `coincided`     *)
(* records whether, at some instant since the request was taken, the       *)
(* session record equalled the presented token while the identity record   *)
(* was present and active.                                                 *)

NoVerify == [pc |-> "idle", token |-> {}, coincided |-> FALSE, status |-> 0]

Coincide(token, us, r, t) ==
    /\ \E b \in redis_get(r, TokenKey(token.payload.sub), t) : Decode(b) = token
    /\ \E u \in get(us, UUID(token.payload.sub)) : u.is_active

(* Part of every step that changes a store or the clock *)
Observe ==
    vfy' = [w \in DOMAIN vfy |->
              IF vfy[w].pc = "session_read"
              THEN [vfy[w] EXCEPT !.coincided =
                       @ \/ \E token \in vfy[w].token :
                                Coincide(token, users', redis', now')]
              ELSE vfy[w]]

----------------------------------------------------------------------------
(* HTTP exchanges *)

NoExchange ==
    [op |-> "none", presented |-> {}, status |-> 0,
     detail |-> "", token |-> {}, user |-> {}]

Exchange(op, presented, status, detail, token, user) ==
    [op |-> op, presented |-> presented, status |-> status,
     detail |-> detail, token |-> token, user |-> user]

----------------------------------------------------------------------------
(* POST /register *)

register_result(us, body, id, salt) ==
    LET user_data == UserCreate(body) IN
    IF ~validate_email(user_data.email)
    THEN [status |-> 400, detail |-> "Invalid email format", users |-> us]
    ELSE IF get_by_email(us, user_data.email) # {}
    THEN [status |-> 400, detail |-> "Email already registered", users |-> us]
    ELSE IF get_by_username(us, user_data.username) # {}
    THEN [status |-> 400, detail |-> "Username already taken", users |-> us]
    ELSE LET made == create(us, user_data, id, salt) IN
         IF made.raised
         THEN [status |-> 500, detail |-> "Internal server error", users |-> us]
         ELSE [status |-> 200, detail |-> "User registered successfully",
               users |-> made.users]

register_user(body) ==
    \E salt \in Salts :
      LET out == register_result(users, body, nextId, salt) IN
        /\ out.status = 200 => nextId <= MaxUsers
        /\ users' = out.users
        /\ nextId' = IF out.status = 200 THEN nextId + 1 ELSE nextId
        /\ resp' = Exchange("register", {}, out.status, out.detail, {}, {})
        /\ UNCHANGED <<redis, now, issued, revoked, reg>>
        /\ UNCHANGED gwvars
        /\ Observe

----------------------------------------------------------------------------
(* POST /login *)

login_lookup(us, identifier) ==
    IF get_by_username(us, identifier) # {}
    THEN get_by_username(us, identifier)
    ELSE get_by_email(us, identifier)

(* Mutant: an unknown identifier is told apart from a wrong password       *)
login_result_reveal_unknown(us, r, body, t) ==
    LET found == login_lookup(us, body.username) IN
    IF found = {}
    THEN [status |-> 404, detail |-> "User not found", token |-> {},
          expires_in |-> {}, users |-> us, redis |-> r]
    ELSE IF \A u \in found : ~verify_password(body.password, u.password_hash)
    THEN [status |-> 401, detail |-> "Invalid credentials", token |-> {},
          expires_in |-> {}, users |-> us, redis |-> r]
    ELSE LET user == CHOOSE u \in found : TRUE IN
         IF ~user.is_active
         THEN [status |-> 401, detail |-> "Account is disabled", token |-> {},
               expires_in |-> {}, users |-> us, redis |-> r]
         ELSE LET access_token ==
                    create_access_token(
                        [sub |-> StrOfId(user.id), username |-> user.username,
                         email |-> user.email, role |-> user.role],
                        jwt_secret, jwt_expire_minutes * 60, t)
              IN [status |-> 200, detail |-> "", token |-> {access_token},
                  expires_in |-> {jwt_expire_minutes * 60},
                  users |-> update_last_login(us, user.id, t),
                  redis |-> redis_setex(r, TokenKey(StrOfId(user.id)),
                                        jwt_expire_minutes * 60, access_token, t)]

(* Mutant: the active flag is not consulted                                *)
login_result_ignore_active(us, r, body, t) ==
    LET found == login_lookup(us, body.username) IN
    IF found = {} \/ \A u \in found : ~verify_password(body.password, u.password_hash)
    THEN [status |-> 401, detail |-> "Invalid credentials", token |-> {},
          expires_in |-> {}, users |-> us, redis |-> r]
    ELSE LET user == CHOOSE u \in found : TRUE
             access_token ==
                    create_access_token(
                        [sub |-> StrOfId(user.id), username |-> user.username,
                         email |-> user.email, role |-> user.role],
                        jwt_secret, jwt_expire_minutes * 60, t)
         IN [status |-> 200, detail |-> "", token |-> {access_token},
             expires_in |-> {jwt_expire_minutes * 60},
             users |-> update_last_login(us, user.id, t),
             redis |-> redis_setex(r, TokenKey(StrOfId(user.id)),
                                   jwt_expire_minutes * 60, access_token, t)]

(* Token(access_token, token_type="bearer", expires_in) or an HTTPException *)
login_result(us, r, body, t) ==
    LET found == login_lookup(us, body.username) IN
    IF found = {} \/ \A u \in found : ~verify_password(body.password, u.password_hash)
    THEN [status |-> 401, detail |-> "Invalid credentials", token |-> {},
          expires_in |-> {}, users |-> us, redis |-> r]
    ELSE LET user == CHOOSE u \in found : TRUE IN
         IF ~user.is_active
         THEN [status |-> 401, detail |-> "Account is disabled", token |-> {},
               expires_in |-> {}, users |-> us, redis |-> r]
         ELSE LET access_token ==
                    create_access_token(
                        [sub |-> StrOfId(user.id), username |-> user.username,
                         email |-> user.email, role |-> user.role],
                        jwt_secret, jwt_expire_minutes * 60, t)
              IN [status |-> 200, detail |-> "", token |-> {access_token},
                  expires_in |-> {jwt_expire_minutes * 60},
                  users |-> update_last_login(us, user.id, t),
                  redis |-> redis_setex(r, TokenKey(StrOfId(user.id)),
                                        jwt_expire_minutes * 60, access_token, t)]

login_user(body) ==
    LET out == login_result(users, redis, body, now) IN
      /\ out.token \subseteq issued \/ Cardinality(issued) < MaxTokens
      /\ users' = out.users
      /\ redis' = out.redis
      /\ issued' = issued \cup out.token
      /\ revoked' = revoked \ out.token
      /\ resp' = Exchange("login", {}, out.status, out.detail, out.token, {})
      /\ UNCHANGED <<now, nextId, reg>>
      /\ UNCHANGED gwvars
      /\ Observe

(* login_user while the session store is unreachable: redis_client.setex   *)
(* raises after user_crud.update_last_login has committed, and the         *)
(* exception is answered with 500                                          *)
login_result_setex_raises(us, r, body, t) ==
    LET out == login_result(us, r, body, t) IN
    IF out.status # 200 THEN out
    ELSE [status |-> 500, detail |-> "Internal server error", token |-> {},
          expires_in |-> {}, users |-> out.users, redis |-> r]

login_user_setex_raises(body) ==
    LET out == login_result_setex_raises(users, redis, body, now) IN
      /\ users' = out.users
      /\ redis' = out.redis
      /\ resp' = Exchange("login", {}, out.status, out.detail, out.token, {})
      /\ UNCHANGED <<now, nextId, issued, revoked, reg>>
      /\ UNCHANGED gwvars
      /\ Observe

----------------------------------------------------------------------------
(* POST /logout *)

(* Mutant: the session record is left in place                             *)
logout_result_no_delete(r, token, t) ==
    IF verify_token(token, jwt_secret, t) = {}
    THEN [status |-> 401, detail |-> "Invalid token", redis |-> r]
    ELSE [status |-> 200, detail |-> "Logged out successfully", redis |-> r]

(* Mutant: logging out an absent session is an error                       *)
logout_result_strict(r, token, t) ==
    IF verify_token(token, jwt_secret, t) = {}
    THEN [status |-> 401, detail |-> "Invalid token", redis |-> r]
    ELSE IF TokenKey(token.payload.sub) \notin DOMAIN r
    THEN [status |-> 404, detail |-> "Session not found", redis |-> r]
    ELSE [status |-> 200, detail |-> "Logged out successfully",
          redis |-> redis_delete(r, TokenKey(token.payload.sub))]

(* Mutant: an expired token with a good signature still names the subject  *)
logout_result_tolerate_expiry(r, token, t) ==
    IF jwt_decode(token, jwt_secret, t).error = "InvalidSignature"
    THEN [status |-> 401, detail |-> "Invalid token", redis |-> r]
    ELSE [status |-> 200, detail |-> "Logged out successfully",
          redis |-> redis_delete(r, TokenKey(token.payload.sub))]

(* Mutant: the subject is read from the token without checking it          *)
logout_result_unverified(r, token, t) ==
    [status |-> 200, detail |-> "Logged out successfully",
     redis |-> redis_delete(r, TokenKey(token.payload.sub))]

(* Mutant: only the token that is the stored one clears the session       *)
logout_result_compare_stored(r, token, t) ==
    IF verify_token(token, jwt_secret, t) = {}
    THEN [status |-> 401, detail |-> "Invalid token", redis |-> r]
    ELSE IF \A b \in redis_get(r, TokenKey(token.payload.sub), t) : Decode(b) # token
    THEN [status |-> 200, detail |-> "Logged out successfully", redis |-> r]
    ELSE [status |-> 200, detail |-> "Logged out successfully",
          redis |-> redis_delete(r, TokenKey(token.payload.sub))]

(* Mutant: the session record is deleted before the token is checked       *)
logout_result_delete_first(r, token, t) ==
    [status |-> IF verify_token(token, jwt_secret, t) = {} THEN 401 ELSE 200,
     detail |-> IF verify_token(token, jwt_secret, t) = {}
                THEN "Invalid token" ELSE "Logged out successfully",
     redis |-> redis_delete(r, TokenKey(token.payload.sub))]

logout_result(r, token, t) ==
    LET token_data == verify_token(token, jwt_secret, t) IN
    IF token_data = {}
    THEN [status |-> 401, detail |-> "Invalid token", redis |-> r]
    ELSE LET user_id == (CHOOSE d \in token_data : TRUE).sub IN
         [status |-> 200, detail |-> "Logged out successfully",
          redis |-> redis_delete(r, TokenKey(user_id))]

logout_user(token) ==
    LET out == logout_result(redis, token, now) IN
      /\ redis' = out.redis
      /\ revoked' = IF out.status = 200 THEN revoked \cup ({token} \cap issued) ELSE revoked
      /\ resp' = Exchange("logout", {token}, out.status, out.detail, {}, {})
      /\ UNCHANGED <<users, now, nextId, issued, reg>>
      /\ UNCHANGED gwvars
      /\ Observe

----------------------------------------------------------------------------
(* GET /verify and GET /me *)

(* Mutant: the session record is not compared with the presented token    *)
verify_result_no_session_check(us, r, token, t) ==
    IF verify_token(token, jwt_secret, t) = {}
    THEN [status |-> 401, detail |-> "Invalid token", user |-> {}]
    ELSE LET user == get(us, UUID(token.payload.sub)) IN
         IF user = {}
         THEN [status |-> 404, detail |-> "User not found", user |-> {}]
         ELSE IF \E u \in user : ~u.is_active
         THEN [status |-> 401, detail |-> "Account is disabled", user |-> {}]
         ELSE [status |-> 200, detail |-> "", user |-> {UserOut(u) : u \in user}]

(* Mutant: a disabled account is answered with 403                         *)
verify_result_disabled_403(us, r, token, t) ==
    IF verify_token(token, jwt_secret, t) = {}
    THEN [status |-> 401, detail |-> "Invalid token", user |-> {}]
    ELSE IF \A b \in redis_get(r, TokenKey(token.payload.sub), t) : Decode(b) # token
    THEN [status |-> 401, detail |-> "Token not found or expired", user |-> {}]
    ELSE LET user == get(us, UUID(token.payload.sub)) IN
         IF user = {}
         THEN [status |-> 404, detail |-> "User not found", user |-> {}]
         ELSE IF \E u \in user : ~u.is_active
         THEN [status |-> 403, detail |-> "Account is disabled", user |-> {}]
         ELSE [status |-> 200, detail |-> "", user |-> {UserOut(u) : u \in user}]

(* Mutant: the identity record is loaded before the session record is read *)
verify_result_lookup_first(us, r, token, t) ==
    IF verify_token(token, jwt_secret, t) = {}
    THEN [status |-> 401, detail |-> "Invalid token", user |-> {}]
    ELSE LET user == get(us, UUID(token.payload.sub)) IN
         IF user = {}
         THEN [status |-> 404, detail |-> "User not found", user |-> {}]
         ELSE IF \A b \in redis_get(r, TokenKey(token.payload.sub), t) : Decode(b) # token
         THEN [status |-> 401, detail |-> "Token not found or expired", user |-> {}]
         ELSE IF \E u \in user : ~u.is_active
         THEN [status |-> 401, detail |-> "Account is disabled", user |-> {}]
         ELSE [status |-> 200, detail |-> "", user |-> {UserOut(u) : u \in user}]

verify_result(us, r, token, t) ==
    LET token_data == verify_token(token, jwt_secret, t) IN
    IF token_data = {}
    THEN [status |-> 401, detail |-> "Invalid token", user |-> {}]
    ELSE LET user_id == (CHOOSE d \in token_data : TRUE).sub
             stored_token == redis_get(r, TokenKey(user_id), t)
         IN IF stored_token = {} \/ \A b \in stored_token : Decode(b) # token
            THEN [status |-> 401, detail |-> "Token not found or expired", user |-> {}]
            ELSE LET user == get(us, UUID(user_id)) IN
                 IF user = {}
                 THEN [status |-> 404, detail |-> "User not found", user |-> {}]
                 ELSE IF \E u \in user : ~u.is_active
                 THEN [status |-> 401, detail |-> "Account is disabled", user |-> {}]
                 ELSE [status |-> 200, detail |-> "",
                       user |-> {UserOut(u) : u \in user}]

verify_token_endpoint(token) ==
    LET out == verify_result(users, redis, token, now) IN
      /\ resp' = Exchange("verify", {token}, out.status, out.detail, {}, out.user)
      /\ UNCHANGED <<users, redis, now, nextId, issued, revoked, reg>>
      /\ UNCHANGED gwvars
      /\ Observe

get_current_user(token) ==
    LET out == verify_result(users, redis, token, now) IN
      /\ resp' = Exchange("me", {token}, out.status, out.detail, {}, out.user)
      /\ UNCHANGED <<users, redis, now, nextId, issued, revoked, reg>>
      /\ UNCHANGED gwvars
      /\ Observe

----------------------------------------------------------------------------
(* Bearer tokens a client can present: the issued ones, the same claims    *)
(* signed with another secret, and an issued token whose subject is        *)
(* altered to the next id                                                  *)

Forged(token) == jwt_encode(token.payload, AttackerSecret)
Tampered(token, id) ==
    [payload |-> [token.payload EXCEPT !.sub = StrOfId(id)], sig |-> token.sig]

Presentable ==
    issued \cup {Forged(t) : t \in issued}
           \cup {Tampered(t, (UUID(t.payload.sub) % MaxUsers) + 1) : t \in issued}

----------------------------------------------------------------------------
(* Environment: administrative changes of the credential store, the clock  *)

AdminUpdate ==
    \E u \in users : \E is_active \in BOOLEAN :
        /\ u.is_active # is_active
        /\ users' = update(users, u.id, is_active)
        /\ resp' = NoExchange
        /\ UNCHANGED <<redis, now, nextId, issued, revoked, reg>>
        /\ UNCHANGED gwvars
        /\ Observe

AdminDelete ==
    \E u \in users :
        /\ users' = delete(users, u.id)
        /\ resp' = NoExchange
        /\ UNCHANGED <<redis, now, nextId, issued, revoked, reg>>
        /\ UNCHANGED gwvars
        /\ Observe

(* The clock moves by a second or by a whole token lifetime; it is kept to *)
(* at most MaxSeconds seconds past 0 or past one lifetime.                 *)
Tick ==
    \E d \in {1, jwt_expire_minutes * 60} :
        /\ now + d < 2 * jwt_expire_minutes * 60
        /\ (now + d) % (jwt_expire_minutes * 60) <= MaxSeconds
        /\ now' = now + d
        /\ redis' = redis_expire(redis, now + d)
        /\ resp' = NoExchange
        /\ UNCHANGED <<users, nextId, issued, revoked, reg>>
        /\ UNCHANGED gwvars
        /\ Observe

----------------------------------------------------------------------------
(* API gateway (services/api-gateway/main.py): the route table, dispatch   *)
(* of /api/v1/{path} to a backend, the aggregate health check.             *)
(*                                                                         *)
(* A body (bytes) is a record: the JSON value it parses to, if any, and    *)
(* the form it is written in.  A JSON value is the sequence of its keys    *)
(* and values.  Header and query lists are sequences of <<name, value>>.   *)
(* Host filtering, CORS and the middleware stack are outside this section. *)

ApiV1 == <<"/", "a", "p", "i", "/", "v", "1">>
HealthPath == <<"/", "h", "e", "a", "l", "t", "h">>

SERVICE_ROUTES ==
    << [route_prefix |-> ApiV1 \o <<"/", "a", "u", "t", "h">>,
        service_url |-> "http://auth-service:8001"],
       [route_prefix |-> ApiV1 \o <<"/", "f", "i", "l", "e", "s">>,
        service_url |-> "http://file-service:8002"],
       [route_prefix |-> ApiV1 \o <<"/", "w", "e", "b", "o", "d", "m">>,
        service_url |-> "http://webodm-service:8003"],
       [route_prefix |-> ApiV1 \o <<"/", "g", "e", "e">>,
        service_url |-> "http://gee-service:8004"],
       [route_prefix |-> ApiV1 \o <<"/", "p", "r", "o", "c", "e", "s", "s", "i", "n", "g">>,
        service_url |-> "http://processing-service:8005"],
       [route_prefix |-> ApiV1 \o <<"/", "a", "n", "a", "l", "y", "s", "i", "s">>,
        service_url |-> "http://analysis-service:8006"],
       [route_prefix |-> ApiV1 \o <<"/", "v", "i", "s", "u", "a", "l", "i", "z", "a", "t", "i", "o", "n">>,
        service_url |-> "http://visualization-service:8007"] >>

(* str.startswith *)
startswith(s, prefix) ==
    Len(prefix) <= Len(s) /\ SubSeq(s, 1, Len(prefix)) = prefix

(* Mutant: the loop has no break, the last matching entry wins             *)
resolve_last_match(routes, request_path) ==
    LET matching == {i \in 1..Len(routes) :
                        startswith(request_path, routes[i].route_prefix)} IN
    IF matching = {} THEN [target_service |-> {}, service_path |-> {}]
    ELSE LET i == CHOOSE k \in matching : \A j \in matching : j <= k IN
         [target_service |-> {routes[i].service_url},
          service_path |-> {SubSeq(request_path, Len(routes[i].route_prefix) + 1,
                                   Len(request_path))}]

(* Mutant: a path that matches no entry goes to the first backend          *)
resolve_fallback_first(routes, request_path) ==
    LET matching == {i \in 1..Len(routes) :
                        startswith(request_path, routes[i].route_prefix)}
        i == IF matching = {} THEN 1
             ELSE CHOOSE k \in matching : \A j \in matching : k <= j
    IN [target_service |-> {routes[i].service_url},
        service_path |-> {IF matching = {} THEN request_path
                          ELSE SubSeq(request_path, Len(routes[i].route_prefix) + 1,
                                      Len(request_path))}]

(* The loop of api_proxy over SERVICE_ROUTES.items(), in insertion order,  *)
(* with break at the first match; None is the empty set                    *)
resolve(routes, request_path) ==
    LET matching == {i \in 1..Len(routes) :
                        startswith(request_path, routes[i].route_prefix)} IN
    IF matching = {} THEN [target_service |-> {}, service_path |-> {}]
    ELSE LET i == CHOOSE k \in matching : \A j \in matching : k <= j IN
         [target_service |-> {routes[i].service_url},
          service_path |-> {SubSeq(request_path, Len(routes[i].route_prefix) + 1,
                                   Len(request_path))}]

----------------------------------------------------------------------------
(* Bodies and JSON *)

EmptyBody == [value |-> {}, form |-> "empty"]
TextBody == [value |-> {}, form |-> "text"]
json_loads(content) == content.value                 \* {} : JSONDecodeError
json_dumps(value) == [value |-> {value}, form |-> "compact"]   \* JSONResponse.render

(* Header lists to dict: the first value of a repeated name is kept        *)
dict(items) ==
    [name \in {items[i][1] : i \in 1..Len(items)} |->
        items[CHOOSE i \in 1..Len(items) :
                /\ items[i][1] = name
                /\ \A j \in 1..Len(items) : items[j][1] = name => i <= j][2]]

pop(d, key) == [k \in DOMAIN d \ {key} |-> d[k]]

(* starlette Response.init_headers: content-type is added when absent      *)
JSONResponse(content, status_code, headers) ==
    [status_code |-> status_code,
     body |-> json_dumps(content),
     headers |-> IF "content-type" \in DOMAIN headers THEN headers
                 ELSE [k \in DOMAIN headers \cup {"content-type"} |->
                        IF k = "content-type" THEN "application/json"
                        ELSE headers[k]]]

(* An HTTPException as the HTTPException handler answers it                *)
http_exception_handler(exc) ==
    JSONResponse(<<"success", "false", "message", exc.detail,
                   "timestamp", "2024-01-01T00:00:00Z">>,
                 exc.status_code, << >>)

----------------------------------------------------------------------------
(* Inbound requests *)

Methods == {"GET", "POST", "PUT", "DELETE", "PATCH"}

Paths ==
    { <<"a", "u", "t", "h", "/", "l", "o", "g", "i", "n">>,
      <<"f", "i", "l", "e", "s", "/", "4", "2">>,
      <<"f", "i", "l", "e", "s", "y", "s", "t", "e", "m">>,
      <<"g", "e", "e">>,
      <<"u", "s", "e", "r", "s">> }

InboundShapes ==
    { [headers |-> << <<"host", "localhost">>, <<"authorization", "Bearer t">> >>,
       query_params |-> << >>,
       body |-> EmptyBody],
      [headers |-> << <<"host", "localhost">>, <<"x-forwarded-for", "10.0.0.1">>,
                      <<"x-forwarded-for", "10.0.0.2">> >>,
       query_params |-> << <<"page", "2">> >>,
       body |-> json_dumps(<<"name", "x">>)] }

Requests ==
    {[method |-> m, path |-> p, headers |-> s.headers,
      query_params |-> s.query_params, body |-> s.body] :
        m \in Methods, p \in Paths, s \in InboundShapes}

(* What the backend or the network does with a request that reaches it     *)
BackendResponses ==
    { [status_code |-> 200, content |-> json_dumps(<<"ok", "true">>),
       headers |-> << <<"content-type", "application/json">> >>],
      [status_code |-> 200, content |-> [value |-> {<<"ok", "true">>}, form |-> "indented"],
       headers |-> << <<"content-type", "application/json">> >>],
      [status_code |-> 200, content |-> TextBody,
       headers |-> << <<"content-type", "text/plain">> >>],
      [status_code |-> 204, content |-> EmptyBody, headers |-> << >>],
      [status_code |-> 404, content |-> json_dumps(<<"detail", "File not found">>),
       headers |-> << <<"content-type", "application/json">> >>] }

TimeoutException == {"ConnectTimeout", "ReadTimeout"}   \* httpx.TimeoutException
ConnectError == {"ConnectError"}                        \* httpx.ConnectError
TransportErrors == TimeoutException \cup ConnectError \cup {"ReadError"}

Behaviours ==
    {[raises |-> {}, response |-> {r}] : r \in BackendResponses}
        \cup {[raises |-> {e}, response |-> {}] : e \in TransportErrors}

----------------------------------------------------------------------------
(* proxy_request *)

(* Mutant: the text of the exception is passed on                          *)
failure_translation_leaky(exc) ==
    IF exc \in TimeoutException
    THEN [status_code |-> 504, detail |-> "Service timeout"]
    ELSE IF exc \in ConnectError
    THEN [status_code |-> 503, detail |-> "Service unavailable"]
    ELSE [status_code |-> 500, detail |-> exc]

(* The except clauses of proxy_request, in their order                     *)
failure_translation(exc) ==
    IF exc \in TimeoutException
    THEN [status_code |-> 504, detail |-> "Service timeout"]
    ELSE IF exc \in ConnectError
    THEN [status_code |-> 503, detail |-> "Service unavailable"]
    ELSE [status_code |-> 500, detail |-> "Internal server error"]

(* httpx.URL(f"{target_url}{path}"): every service_url ends in a port, so  *)
(* a path that is not empty and does not begin with "/" runs into the port *)
(* ("http://file-service:8002ystem") and building the request raises       *)
(* httpx.InvalidURL                                                        *)
InvalidURL(target_url, path) == Len(path) > 0 /\ path[1] # "/"

Answer(response, sent, state) ==
    [status_code |-> response.status_code, body |-> response.body,
     headers |-> response.headers, sent |-> sent, http_client |-> state]

(* `async with app.state.http_client`: entering a client that is not       *)
(* unopened raises RuntimeError; leaving the block closes the client       *)
proxy_request(state, request, target_url, path, behaviour) ==
    LET method == request.method
        headers == pop(dict(request.headers), "host")
        body == IF method \in {"POST", "PUT", "PATCH"} THEN {request.body} ELSE {}
        outbound == [method |-> method,
                     url |-> [base |-> target_url, path |-> path],
                     headers |-> headers,
                     content |-> body,
                     params |-> request.query_params]
    IN IF state # "unopened"
       THEN Answer(http_exception_handler(failure_translation("RuntimeError")),
                   << >>, state)
       ELSE IF InvalidURL(target_url, path)
       THEN Answer(http_exception_handler(failure_translation("InvalidURL")),
                   << >>, "closed")
       ELSE IF behaviour.raises # {}
       THEN Answer(http_exception_handler(
                       failure_translation(CHOOSE e \in behaviour.raises : TRUE)),
                   <<outbound>>, "closed")
       ELSE LET response == CHOOSE r \in behaviour.response : TRUE IN
            IF response.content # EmptyBody /\ json_loads(response.content) = {}
            THEN Answer(http_exception_handler(failure_translation("JSONDecodeError")),
                        <<outbound>>, "closed")
            ELSE Answer(JSONResponse(
                            IF response.content # EmptyBody
                            THEN CHOOSE v \in json_loads(response.content) : TRUE
                            ELSE << >>,
                            response.status_code, dict(response.headers)),
                        <<outbound>>, "closed")

(* api_proxy: /api/v1/{path} *)
api_proxy_result(state, request, behaviour) ==
    LET request_path == ApiV1 \o <<"/">> \o request.path
        found == resolve(SERVICE_ROUTES, request_path)
    IN IF found.target_service = {} \/ found.target_service = {""}
       THEN Answer(http_exception_handler(
                       [status_code |-> 404, detail |-> "Service not found"]),
                   << >>, state)
       ELSE proxy_request(state, request,
                          CHOOSE u \in found.target_service : TRUE,
                          CHOOSE p \in found.service_path : TRUE, behaviour)

----------------------------------------------------------------------------
(* check_services_health and GET /health *)

ProbeAnswers == {"200", "503", "ConnectError"}

(* What each backend does with a health probe that reaches it; the         *)
(* backends after the second answer alike                                  *)
HealthAnswers ==
    {[i \in 1..Len(SERVICE_ROUTES) |->
        IF i = 1 THEN a[1] ELSE IF i = 2 THEN a[2] ELSE a[3]] :
            a \in [1..3 -> ProbeAnswers]}

Probe(service_url) ==
    [method |-> "GET", url |-> [base |-> service_url, path |-> HealthPath]]

RECURSIVE check_services_health(_, _, _)
check_services_health(state, answers, n) ==
    IF n = 0
    THEN [services_health |-> << >>, sent |-> << >>, http_client |-> state]
    ELSE LET before == check_services_health(state, answers, n - 1)
             route == SERVICE_ROUTES[n].route_prefix
             entered == before.http_client = "unopened"
             health == IF entered /\ answers[n] = "200" THEN "healthy" ELSE "unhealthy"
         IN [services_health |->
                [r \in DOMAIN before.services_health \cup {route} |->
                    IF r = route THEN health ELSE before.services_health[r]],
             sent |-> IF entered
                      THEN Append(before.sent, Probe(SERVICE_ROUTES[n].service_url))
                      ELSE before.sent,
             http_client |-> IF entered THEN "closed" ELSE before.http_client]

health_check_result(state, answers) ==
    LET checked == check_services_health(state, answers, Len(SERVICE_ROUTES)) IN
    [status_code |-> 200,
     body |-> json_dumps(<<"status", "healthy", "timestamp", "2024-01-01T00:00:00Z",
                           "services">>),
     services |-> {checked.services_health},
     headers |-> dict(<< <<"content-type", "application/json">> >>),
     sent |-> checked.sent, http_client |-> checked.http_client]

----------------------------------------------------------------------------
(* Gateway exchanges *)

NoGatewayExchange ==
    [op |-> "none", request |-> {}, behaviour |-> {}, answers |-> {},
     status_code |-> 0, body |-> EmptyBody, headers |-> << >>, services |-> {},
     sent |-> << >>, target_service |-> {}, service_path |-> {}]

----------------------------------------------------------------------------
(* MetricsMiddleware (services/api-gateway/middleware.py) *)

NoDispatch ==
    [pc |-> "idle", duration |-> 0, X_Request_Count |-> {}, X_Average_Duration |-> {},
     raised |-> {}]

(* MetricsMiddleware.__init__ *)
MetricsMiddleware ==
    [request_count |-> 0, request_duration_sum |-> 0,
     dispatch |-> [i \in 1..MaxRequests |-> NoDispatch]]

----------------------------------------------------------------------------
Workers == {1, 2}

Idle == [pc |-> "idle", body |-> {}, status |-> 0]

Init ==
    /\ users = {}
    /\ redis = << >>
    /\ now = 0
    /\ nextId = 1
    /\ issued = {}
    /\ revoked = {}
    /\ resp = NoExchange
    /\ reg = [w \in Workers |-> Idle]
    /\ http_client = "unopened"
    /\ gw = NoGatewayExchange
    /\ gw_before = 0
    /\ vfy = [w \in Workers |-> NoVerify]
    /\ metrics = MetricsMiddleware

Register == \E body \in SessionRegisterBodies : register_user(body)
Login == \E body \in SessionLoginBodies : login_user(body)
Logout == \E token \in Presentable : logout_user(token)
Verify == \E token \in Presentable : verify_token_endpoint(token)
Me == \E token \in Presentable : get_current_user(token)

(* Two accounts, their sessions, activation and deactivation, the clock    *)
Next ==
    \/ Register
    \/ Login
    \/ Logout
    \/ Verify
    \/ AdminUpdate
    \/ Tick

Spec == Init /\ [][Next]_vars

(* One account that can also be deleted and registered again               *)
RegisterOne ==
    \E body \in {b \in SessionRegisterBodies : b.username = Alice} : register_user(body)
LoginOne ==
    \E body \in {b \in SessionLoginBodies : b.username = Alice} : login_user(body)

NextAdmin ==
    \/ RegisterOne
    \/ LoginOne
    \/ Logout
    \/ Verify
    \/ AdminUpdate
    \/ AdminDelete
    \/ Tick

SpecAdmin == Init /\ [][NextAdmin]_vars

(* One account and every endpoint, with logins that find the session      *)
(* store unreachable                                                       *)
LoginOutage ==
    \E body \in {b \in SessionLoginBodies : b.username = Alice} :
        login_user_setex_raises(body)

NextOutage ==
    \/ RegisterOne
    \/ LoginOne
    \/ LoginOutage
    \/ Logout
    \/ Verify
    \/ Me
    \/ AdminUpdate
    \/ Tick

SpecOutage == Init /\ [][NextOutage]_vars

----------------------------------------------------------------------------
(* Registration under several server processes (Settings.api_workers) on   *)
(* one database: a request's queries and its commit are separate round     *)
(* trips, and another process may commit between them.                     *)

Finish(w, body, status, detail) ==
    /\ reg' = [reg EXCEPT ![w] = [pc |-> "done", body |-> {body}, status |-> status]]
    /\ resp' = Exchange("register", {}, status, detail, {}, {})

(* validate_email, then user_crud.get_by_email *)
RegStart(w) ==
    \E body \in RegisterBodies :
        /\ reg[w].pc \in {"idle", "done"}
        /\ IF ~validate_email(UserCreate(body).email)
           THEN Finish(w, body, 400, "Invalid email format")
           ELSE IF get_by_email(users, UserCreate(body).email) # {}
           THEN Finish(w, body, 400, "Email already registered")
           ELSE /\ reg' = [reg EXCEPT ![w] =
                              [pc |-> "email_free", body |-> {body}, status |-> 0]]
                /\ resp' = resp
        /\ UNCHANGED <<users, redis, now, nextId, issued, revoked>>
        /\ UNCHANGED gwvars
        /\ Observe

(* user_crud.get_by_username *)
RegCheckUsername(w) ==
    \E body \in reg[w].body :
        /\ reg[w].pc = "email_free"
        /\ IF get_by_username(users, UserCreate(body).username) # {}
           THEN Finish(w, body, 400, "Username already taken")
           ELSE /\ reg' = [reg EXCEPT ![w].pc = "username_free"]
                /\ resp' = resp
        /\ UNCHANGED <<users, redis, now, nextId, issued, revoked>>
        /\ UNCHANGED gwvars
        /\ Observe

(* user_crud.create; an exception of the commit is answered with 500 *)
RegCreate(w) ==
    \E body \in reg[w].body : \E salt \in Salts :
      LET made == create(users, UserCreate(body), nextId, salt) IN
        /\ reg[w].pc = "username_free"
        /\ ~made.raised => nextId <= MaxUsers
        /\ users' = made.users
        /\ nextId' = IF made.raised THEN nextId ELSE nextId + 1
        /\ IF made.raised
           THEN Finish(w, body, 500, "Internal server error")
           ELSE Finish(w, body, 200, "User registered successfully")
        /\ UNCHANGED <<redis, now, issued, revoked>>
        /\ UNCHANGED gwvars
        /\ Observe

LoginAny == \E body \in LoginBodies : login_user(body)

NextReg ==
    \/ \E w \in Workers : RegStart(w)
    \/ \E w \in Workers : RegCheckUsername(w)
    \/ \E w \in Workers : RegCreate(w)
    \/ LoginAny

SpecReg == Init /\ [][NextReg]_vars

----------------------------------------------------------------------------
(* Verification under several server processes: the read of the session    *)
(* store and the load of the identity record are separate round trips,     *)
(* and other requests are served between them.                             *)

Answered(w, token, status, detail, user) ==
    /\ vfy' = [vfy EXCEPT ![w] = [@ EXCEPT !.pc = "done", !.token = {token},
                                            !.status = status]]
    /\ resp' = Exchange("verify", {token}, status, detail, {}, user)

(* verify_token, then redis_client.get and the comparison *)
VerifyRead(w) ==
    \E token \in Presentable :
      LET token_data == verify_token(token, jwt_secret, now)
          stored_token == redis_get(redis, TokenKey(token.payload.sub), now)
      IN /\ vfy[w].pc \in {"idle", "done"}
         /\ IF token_data = {}
            THEN Answered(w, token, 401, "Invalid token", {})
            ELSE IF stored_token = {} \/ \A b \in stored_token : Decode(b) # token
            THEN Answered(w, token, 401, "Token not found or expired", {})
            ELSE /\ vfy' = [vfy EXCEPT ![w] =
                               [pc |-> "session_read", token |-> {token},
                                coincided |-> Coincide(token, users, redis, now),
                                status |-> 0]]
                 /\ resp' = resp
         /\ UNCHANGED <<users, redis, now, nextId, issued, revoked, reg>>
         /\ UNCHANGED gwvars

(* user_crud.get, the is_active check, the response *)
VerifyLoad(w) ==
    \E token \in vfy[w].token :
      LET user == get(users, UUID(token.payload.sub)) IN
         /\ vfy[w].pc = "session_read"
         /\ IF user = {}
            THEN Answered(w, token, 404, "User not found", {})
            ELSE IF \E u \in user : ~u.is_active
            THEN Answered(w, token, 401, "Account is disabled", {})
            ELSE Answered(w, token, 200, "", {UserOut(u) : u \in user})
         /\ UNCHANGED <<users, redis, now, nextId, issued, revoked, reg>>
         /\ UNCHANGED gwvars

NextVerify ==
    \/ RegisterOne
    \/ LoginOne
    \/ Logout
    \/ AdminUpdate
    \/ \E w \in Workers : VerifyRead(w)
    \/ \E w \in Workers : VerifyLoad(w)

SpecVerify == Init /\ [][NextVerify]_vars

----------------------------------------------------------------------------
(* The gateway process: requests are taken one at a time *)

api_proxy(request, behaviour) ==
    LET out == api_proxy_result(http_client, request, behaviour)
        found == resolve(SERVICE_ROUTES, ApiV1 \o <<"/">> \o request.path)
    IN /\ http_client' = out.http_client
       /\ gw' = [op |-> "proxy", request |-> {request},
                 behaviour |-> IF found.target_service = {} THEN {} ELSE {behaviour},
                 answers |-> {},
                 status_code |-> out.status_code, body |-> out.body,
                 headers |-> out.headers, services |-> {}, sent |-> out.sent,
                 target_service |-> found.target_service,
                 service_path |-> found.service_path]
       /\ gw_before' = gw.status_code
       /\ UNCHANGED <<authvars, metrics>>

health_check(answers) ==
    LET out == health_check_result(http_client, answers) IN
       /\ http_client' = out.http_client
       /\ gw' = [op |-> "health", request |-> {}, behaviour |-> {},
                 answers |-> {answers},
                 status_code |-> out.status_code, body |-> out.body,
                 headers |-> out.headers, services |-> out.services, sent |-> out.sent,
                 target_service |-> {}, service_path |-> {}]
       /\ gw_before' = gw.status_code
       /\ UNCHANGED <<authvars, metrics>>

(* The process is stopped and started again: lifespan closes the client    *)
(* and makes a new one                                                     *)
lifespan ==
    /\ gw.op # "none"
    /\ http_client' = "unopened"
    /\ gw' = NoGatewayExchange
    /\ gw_before' = 0
    /\ metrics' = MetricsMiddleware
    /\ UNCHANGED authvars

Dispatch == \E request \in Requests : \E behaviour \in Behaviours :
                api_proxy(request, behaviour)
Health == \E answers \in HealthAnswers : health_check(answers)
Restart == lifespan

NextGateway ==
    \/ Dispatch
    \/ Health
    \/ Restart

SpecGateway == Init /\ [][NextGateway]_vars

----------------------------------------------------------------------------
(* MetricsMiddleware.dispatch on the gateway's event loop: a dispatch runs *)
(* to `await call_next(request)`, other dispatches run while it waits, and *)
(* it resumes when the inner application has answered.  Durations are in   *)
(* units of 0.0001 s.                                                      *)

Durations == {1, 2, 4}

(* round(x, 4) of Python 3: to the nearest unit, a tie to the even one *)
round(num, den) ==
    LET q == num \div den
        r == num % den
    IN IF 2 * r < den THEN q
       ELSE IF 2 * r > den THEN q + 1
       ELSE IF q % 2 = 0 THEN q ELSE q + 1

(* Mutant: the sum is written from the last duration alone                 *)
add_duration_overwrite(request_duration_sum, duration) == duration

(* self.request_duration_sum += duration *)
add_duration(request_duration_sum, duration) == request_duration_sum + duration

(* start_time, self.request_count += 1, up to await call_next(request) *)
dispatch_enter(i) ==
    /\ metrics.dispatch[i].pc = "idle"
    /\ metrics' = [metrics EXCEPT !.request_count = @ + 1,
                                  !.dispatch[i].pc = "call_next"]
    /\ UNCHANGED <<authvars, http_client, gw, gw_before>>

(* from the return of call_next to the response with the metrics headers *)
dispatch_leave(i, duration) ==
    LET request_duration_sum == add_duration(metrics.request_duration_sum, duration)
        request_count == metrics.request_count
    IN /\ metrics.dispatch[i].pc = "call_next"
       /\ metrics' = [metrics EXCEPT
               !.request_duration_sum = request_duration_sum,
               !.dispatch[i] =
                   [pc |-> "done", duration |-> duration,
                    X_Request_Count |-> {request_count},
                    X_Average_Duration |->
                        IF request_count = 0 THEN {}
                        ELSE {round(request_duration_sum, request_count)},
                    raised |->
                        IF request_count = 0 THEN {"ZeroDivisionError"} ELSE {}]]
       /\ UNCHANGED <<authvars, http_client, gw, gw_before>>

NextMetrics ==
    \/ \E i \in 1..MaxRequests : dispatch_enter(i)
    \/ \E i \in 1..MaxRequests : \E duration \in Durations : dispatch_leave(i, duration)

SpecMetrics == Init /\ [][NextMetrics]_vars

----------------------------------------------------------------------------
(* Vocabulary of the properties *)

SubjectOf(token) == token.payload.sub
SignatureValid(token) == token.sig = <<jwt_secret, token.payload>>
Unexpired(token) == token.payload.exp > now
HasSession(token) == TokenKey(SubjectOf(token)) \in DOMAIN redis
SessionMatches(token) ==
    /\ HasSession(token)
    /\ redis[TokenKey(SubjectOf(token))].expire_at > now
    /\ redis[TokenKey(SubjectOf(token))].value = <<"bytes", token>>
StatusOfVerify(token) == verify_result(users, redis, token, now).status

----------------------------------------------------------------------------
(* C1 as stated: after every successful login of a subject, every token an *)
(* earlier login of that subject returned fails verification, whatever the *)
(* time between the two logins; and at most one token string verifies per  *)
(* subject in every state.                                                 *)
AtMostOneTokenVerifies ==
    \A t1 \in Presentable : \A t2 \in Presentable :
        (StatusOfVerify(t1) = 200 /\ StatusOfVerify(t2) = 200
            /\ SubjectOf(t1) = SubjectOf(t2)) => t1 = t2

C1_EarlierTokenAlwaysFails ==
    /\ [][\A body \in SessionLoginBodies :
            (login_user(body) /\ resp'.status = 200) =>
                \A t1 \in issued : \A t2 \in resp'.token :
                    SubjectOf(t1) = SubjectOf(t2) =>
                        verify_result(users', redis', t1, now').status # 200]_vars
    /\ []AtMostOneTokenVerifies

(* C1 amended: after every successful login of a subject that returns a    *)
(* token string different from the one an earlier login of that subject    *)
(* returned, the earlier token fails verification; and at most one token   *)
(* string verifies per subject in every state.                             *)
C1_EarlierDistinctTokenFails ==
    /\ (resp.op = "login" /\ resp.status = 200) =>
            \A t2 \in resp.token : \A t1 \in issued :
                (SubjectOf(t1) = SubjectOf(t2) /\ t1 # t2) => StatusOfVerify(t1) # 200
    /\ AtMostOneTokenVerifies

C1_Witness ==
    /\ resp.op = "login"
    /\ resp.status = 200
    /\ \E t1 \in issued : \E t2 \in resp.token :
        /\ SubjectOf(t1) = SubjectOf(t2)
        /\ t1 # t2
        /\ SignatureValid(t1) /\ Unexpired(t1)
        /\ \E u \in users : u.id = UUID(SubjectOf(t1)) /\ u.is_active
        /\ StatusOfVerify(t2) = 200

(* C2: whenever verify answers with an identity record, the presented      *)
(* token has a valid signature and an unelapsed expiry, the session store  *)
(* entry of its subject exists and equals the presented token string, and  *)
(* the identity record of that subject exists, is active and is the one    *)
(* returned.                                                               *)
C2_VerifySuccessImpliesAllChecks ==
    (resp.op = "verify" /\ resp.status = 200) =>
        /\ resp.presented # {}
        /\ \A token \in resp.presented :
            /\ SignatureValid(token)
            /\ Unexpired(token)
            /\ SessionMatches(token)
            /\ \E u \in users :
                /\ u.id = UUID(SubjectOf(token))
                /\ u.is_active
                /\ resp.user = {UserOut(u)}

C2_Witness == resp.op = "verify" /\ resp.status = 200 /\ resp.user # {}

(* C3: a token that a successful logout has presented, and that no later   *)
(* login has returned again, fails verification with 401.                  *)
C3_LoggedOutTokenFailsVerify ==
    /\ \A token \in revoked : StatusOfVerify(token) = 401
    /\ (resp.op = "verify" /\ resp.presented \subseteq revoked) => resp.status = 401

C3_Witness ==
    /\ resp.op = "verify"
    /\ resp.status = 401
    /\ \E token \in resp.presented :
        /\ token \in revoked
        /\ SignatureValid(token) /\ Unexpired(token)
        /\ \E u \in users : u.id = UUID(SubjectOf(token)) /\ u.is_active

C5_VerifyFailsUniformly ==
    /\ \A token \in Presentable :
        /\ ~SignatureValid(token) => StatusOfVerify(token) = 401
        /\ (SignatureValid(token) /\ ~Unexpired(token)) => StatusOfVerify(token) = 401
        /\ (SignatureValid(token) /\ Unexpired(token) /\ ~HasSession(token))
                => StatusOfVerify(token) = 401
        /\ (SignatureValid(token) /\ Unexpired(token) /\ SessionMatches(token)
                /\ \E u \in users : u.id = UUID(SubjectOf(token)) /\ ~u.is_active)
                => StatusOfVerify(token) = 401
    /\ resp.op = "verify" =>
            \A token \in resp.presented : resp.status = StatusOfVerify(token)

C5_Witness ==
    /\ resp.op = "verify"
    /\ resp.status = 401
    /\ \E token \in resp.presented :
        /\ SignatureValid(token) /\ Unexpired(token) /\ SessionMatches(token)
        /\ \E u \in users : u.id = UUID(SubjectOf(token)) /\ ~u.is_active

C7_BadSignatureLogoutRejected ==
    /\ \A token \in Presentable :
        ~SignatureValid(token) =>
            /\ logout_result(redis, token, now).status = 401
            /\ logout_result(redis, token, now).redis = redis
    /\ \A token \in resp.presented :
        (resp.op = "logout" /\ ~SignatureValid(token)) => resp.status = 401

C7_Witness ==
    /\ resp.op = "logout"
    /\ resp.status = 401
    /\ \E token \in resp.presented :
        /\ ~SignatureValid(token)
        /\ HasSession(token)

----------------------------------------------------------------------------
(* C8 as stated: the row a completed registration has created is active,   *)
(* whatever the request carried, and has role viewer when the request gave *)
(* no role.                                                                *)
C8_RegisteredRowIsActive ==
    \A w \in Workers : \A body \in reg[w].body :
        (reg[w].pc = "done" /\ reg[w].status = 200) =>
            \A u \in get_by_email(users, body.email) :
                /\ u.is_active
                /\ body.role = "absent" => u.role = "viewer"

(* C9 as stated: the credential store is unique on email and on username,  *)
(* and every registration that creates no row (duplicate email or          *)
(* username, also when lost to a concurrent registration, or malformed     *)
(* email) is answered with 400.                                            *)
C9_DuplicateRegistrationIs400 ==
    /\ \A u \in users : \A v \in users :
        (u.email = v.email \/ u.username = v.username) => u = v
    /\ \A w \in Workers : \A body \in reg[w].body :
        reg[w].pc = "done" =>
            /\ reg[w].status \in {200, 400}
            /\ ~validate_email(body.email) => reg[w].status = 400

(* C10 as stated: after a registration has succeeded, a login with its     *)
(* username, or with its email, and its password succeeds and returns a    *)
(* token whose subject is the id of the row that registration created.     *)
C10_LoginAfterRegistration ==
    \A w \in Workers : \A body \in reg[w].body :
        (reg[w].pc = "done" /\ reg[w].status = 200) =>
            \A identifier \in {body.username, body.email} :
                LET out == login_result(users, redis,
                               [username |-> identifier, password |-> body.password], now)
                IN /\ out.status = 200
                   /\ \A token \in out.token : \A u \in get_by_email(users, body.email) :
                        SubjectOf(token) = StrOfId(u.id)

----------------------------------------------------------------------------
(* C11: a successful login leaves the session store entry of the subject   *)
(* equal to the token string it returns, with a time to live of            *)
(* jwt_expire_minutes * 60 = 86400 seconds, returns that number as         *)
(* expires_in, and has set the last-login timestamp of the identity record *)
(* to the time of the login.                                               *)
LoginLeft(us, r, token) ==
    /\ TokenKey(SubjectOf(token)) \in DOMAIN r
    /\ Decode(r[TokenKey(SubjectOf(token))].value) = token
    /\ r[TokenKey(SubjectOf(token))].expire_at - now = jwt_expire_minutes * 60
    /\ get(us, UUID(SubjectOf(token))) # {}
    /\ \A u \in get(us, UUID(SubjectOf(token))) : u.last_login = {now}

C11_LoginWritesSession ==
    /\ jwt_expire_minutes * 60 = 86400
    /\ \A body \in SessionLoginBodies :
        LET out == login_result(users, redis, body, now) IN
        out.status = 200 =>
            /\ out.token # {}
            /\ out.expires_in = {jwt_expire_minutes * 60}
            /\ \A token \in out.token : LoginLeft(out.users, out.redis, token)
    /\ (resp.op = "login" /\ resp.status = 200) =>
            /\ resp.token # {}
            /\ \A token \in resp.token : LoginLeft(users, redis, token)

C11_Witness ==
    /\ resp.op = "login"
    /\ resp.status = 200
    /\ \E token \in resp.token :
        /\ HasSession(token)
        /\ now > 0
        /\ \E u \in users : u.id = UUID(SubjectOf(token)) /\ u.last_login = {now}

(* C12: a login with an identifier that matches no identity record and a   *)
(* login with a known identifier and a mismatching password get the same   *)
(* response, 401 "Invalid credentials" without a token, and neither        *)
(* changes the session store or the credential store.                      *)
UnknownIdentifier(body) == login_lookup(users, body.username) = {}
WrongPassword(body) ==
    /\ login_lookup(users, body.username) # {}
    /\ \A u \in login_lookup(users, body.username) :
            u.password_hash.digest # <<"bcrypt", u.password_hash.salt, body.password>>
LoginResponse(body) ==
    LET out == login_result(users, redis, body, now) IN
    [status |-> out.status, detail |-> out.detail, token |-> out.token,
     expires_in |-> out.expires_in]

C12_LoginFailureUniform ==
    /\ \A b1 \in SessionLoginBodies : \A b2 \in SessionLoginBodies :
        (UnknownIdentifier(b1) /\ WrongPassword(b2)) =>
            /\ LoginResponse(b1) = LoginResponse(b2)
            /\ LoginResponse(b1) = [status |-> 401, detail |-> "Invalid credentials",
                                     token |-> {}, expires_in |-> {}]
            /\ login_result(users, redis, b1, now).redis = redis
            /\ login_result(users, redis, b2, now).redis = redis
            /\ login_result(users, redis, b1, now).users = users
            /\ login_result(users, redis, b2, now).users = users
    /\ (resp.op = "login" /\ resp.detail = "Invalid credentials") =>
            resp.status = 401 /\ resp.token = {}

C12_Witness ==
    /\ resp.op = "login"
    /\ resp.status = 401
    /\ resp.detail = "Invalid credentials"
    /\ \E b1 \in SessionLoginBodies : UnknownIdentifier(b1)
    /\ \E b2 \in SessionLoginBodies :
        /\ WrongPassword(b2)
        /\ \E u \in login_lookup(users, b2.username) : u.is_active

(* C13: a login for an identity record whose is_active is false fails with *)
(* 401, returns no token and leaves the session store and the credential   *)
(* store unchanged; when its password matches the answer is "Account is    *)
(* disabled" (a mismatching password is answered as in C12); and no token  *)
(* verifies for a subject whose identity record is inactive.               *)
C13_DisabledLoginRejected ==
    /\ \A body \in SessionLoginBodies : \A u \in login_lookup(users, body.username) :
        ~u.is_active =>
            LET out == login_result(users, redis, body, now) IN
            /\ out.status = 401
            /\ out.token = {}
            /\ out.redis = redis
            /\ out.users = users
            /\ out.detail = IF verify_password(body.password, u.password_hash)
                            THEN "Account is disabled" ELSE "Invalid credentials"
    /\ \A token \in Presentable : \A u \in users :
        (u.id = UUID(SubjectOf(token)) /\ ~u.is_active) => StatusOfVerify(token) # 200
    /\ (resp.op = "login" /\ resp.detail = "Account is disabled") =>
            resp.status = 401 /\ resp.token = {}

C13_Witness ==
    /\ resp.op = "login"
    /\ resp.status = 401
    /\ resp.detail = "Account is disabled"
    /\ \E u \in users :
        /\ ~u.is_active
        /\ \E token \in issued : UUID(SubjectOf(token)) = u.id /\ SessionMatches(token)

----------------------------------------------------------------------------
(* Vocabulary of the gateway properties *)

RequestPath(request) == ApiV1 \o <<"/">> \o request.path
Matches(request_path) ==
    {i \in 1..Len(SERVICE_ROUTES) :
        startswith(request_path, SERVICE_ROUTES[i].route_prefix)}
Envelope(detail) ==
    json_dumps(<<"success", "false", "message", detail,
                 "timestamp", "2024-01-01T00:00:00Z">>)
Items(seq) == {seq[i] : i \in 1..Len(seq)}
ItemsOfDict(d) == {<<k, d[k]>> : k \in DOMAIN d}

(* The backend of the last dispatch is reachable and answers               *)
BackendAnswers == gw.behaviour # {} /\ \A b \in gw.behaviour : b.response # {}

(* The exception that ended the last dispatch inside proxy_request         *)
DispatchFailure ==
    IF gw.op # "proxy" \/ gw.target_service = {} THEN {}
    ELSE IF Len(gw.sent) = 0
    THEN IF \E path \in gw.service_path : \E u \in gw.target_service : InvalidURL(u, path)
         THEN {"RuntimeError", "InvalidURL"}   \* one of the two, both before sending
         ELSE {"RuntimeError"}
    ELSE UNION {b.raises : b \in gw.behaviour}
         \cup {"JSONDecodeError" : r \in
                 {x \in UNION {b.response : b \in gw.behaviour} :
                    x.content # EmptyBody /\ x.content.value = {}}}

(* C14 as stated: a dispatch that follows one ended in 503 or 504, and     *)
(* whose backend is reachable and answers, is forwarded to that backend    *)
(* and answered with the backend's status, not with an error of the        *)
(* gateway's own.                                                          *)
C14_ServesAfterFailure ==
    (gw.op = "proxy" /\ gw_before \in {503, 504} /\ gw.target_service # {}
        /\ BackendAnswers) =>
            /\ Len(gw.sent) = 1
            /\ \A b \in gw.behaviour : \A r \in b.response :
                    gw.status_code = r.status_code

(* C15: a dispatch ended by a connect failure is answered 503, one ended   *)
(* by a timeout 504, and one ended by any other exception 500 with the     *)
(* message "Internal server error"; the name of the exception is in no     *)
(* answer.                                                                 *)
C15_FailureTranslation ==
    /\ \A exc \in DispatchFailure :
        /\ exc \in ConnectError =>
                gw.status_code = 503 /\ gw.body = Envelope("Service unavailable")
        /\ exc \in TimeoutException =>
                gw.status_code = 504 /\ gw.body = Envelope("Service timeout")
        /\ exc \notin ConnectError \cup TimeoutException =>
                gw.status_code = 500 /\ gw.body = Envelope("Internal server error")
    /\ \A exc \in TransportErrors \cup {"RuntimeError", "JSONDecodeError", "InvalidURL"} :
        /\ failure_translation(exc).status_code =
                IF exc \in TimeoutException THEN 504
                ELSE IF exc \in ConnectError THEN 503 ELSE 500
        /\ failure_translation(exc).detail # exc

C15_Witness ==
    /\ gw.op = "proxy"
    /\ Len(gw.sent) = 1
    /\ gw.status_code = 503
    /\ DispatchFailure = {"ConnectError"}

(* C16: resolution returns the first entry, in declared order, whose       *)
(* prefix is a literal prefix of the request path, with the path after     *)
(* that prefix; with /api/v1/files -> A declared before /api/v1/file -> B, *)
(* /api/v1/files/42 resolves to A with remainder /42; prefix followed by   *)
(* remainder is the request path.                                          *)
FilesPrefix == ApiV1 \o <<"/", "f", "i", "l", "e", "s">>
FilePrefix == ApiV1 \o <<"/", "f", "i", "l", "e">>
FilesThenFile ==
    << [route_prefix |-> FilesPrefix, service_url |-> "A"],
       [route_prefix |-> FilePrefix, service_url |-> "B"] >>
FileThenFiles ==
    << [route_prefix |-> FilePrefix, service_url |-> "B"],
       [route_prefix |-> FilesPrefix, service_url |-> "A"] >>

FirstMatch(routes, request_path, found) ==
    IF \A i \in 1..Len(routes) : ~startswith(request_path, routes[i].route_prefix)
    THEN found.target_service = {} /\ found.service_path = {}
    ELSE \E i \in 1..Len(routes) :
            /\ startswith(request_path, routes[i].route_prefix)
            /\ \A j \in 1..(i - 1) : ~startswith(request_path, routes[j].route_prefix)
            /\ found.target_service = {routes[i].service_url}
            /\ \E remainder \in found.service_path :
                    /\ found.service_path = {remainder}
                    /\ routes[i].route_prefix \o remainder = request_path

C16_FirstDeclaredMatch ==
    /\ resolve(FilesThenFile, FilesPrefix \o <<"/", "4", "2">>) =
            [target_service |-> {"A"}, service_path |-> {<<"/", "4", "2">>}]
    /\ \A routes \in {SERVICE_ROUTES, FilesThenFile, FileThenFiles} :
        \A path \in Paths :
            FirstMatch(routes, ApiV1 \o <<"/">> \o path,
                       resolve(routes, ApiV1 \o <<"/">> \o path))
    /\ gw.op = "proxy" =>
            \A request \in gw.request :
                FirstMatch(SERVICE_ROUTES, RequestPath(request),
                           [target_service |-> gw.target_service,
                            service_path |-> gw.service_path])

C16_Witness ==
    /\ gw.op = "proxy"
    /\ gw.target_service = {"http://file-service:8002"}
    /\ gw.service_path = {<<"/", "4", "2">>}
    /\ Len(gw.sent) = 1
    /\ gw.sent[1].url = [base |-> "http://file-service:8002", path |-> <<"/", "4", "2">>]

(* C17: a dispatch whose request path has none of the declared prefixes is *)
(* answered 404 "Service not found", sends nothing to any backend and      *)
(* leaves the client as it was.                                            *)
C17_NoMatchIs404 ==
    /\ \A request \in Requests : \A behaviour \in Behaviours :
        Matches(RequestPath(request)) = {} =>
            LET out == api_proxy_result(http_client, request, behaviour) IN
            /\ out.status_code = 404
            /\ out.body = Envelope("Service not found")
            /\ out.sent = << >>
            /\ out.http_client = http_client
    /\ gw.op = "proxy" =>
            \A request \in gw.request :
                Matches(RequestPath(request)) = {} =>
                    /\ gw.status_code = 404
                    /\ gw.body = Envelope("Service not found")
                    /\ gw.sent = << >>

C17_Witness ==
    /\ gw.op = "proxy"
    /\ gw.status_code = 404
    /\ gw.sent = << >>
    /\ http_client = "unopened"
    /\ \E request \in gw.request : Matches(RequestPath(request)) = {}

(* C18 as stated: on a route match, for each of the five methods, one      *)
(* request goes out to base URL followed by remainder, with the inbound    *)
(* method, query parameters and body, and the inbound headers without      *)
(* host.                                                                   *)
C18_ForwardsVerbatim ==
    (gw.op = "proxy" /\ gw.target_service # {}) =>
        \A request \in gw.request :
            /\ Len(gw.sent) = 1
            /\ gw.sent[1].method = request.method
            /\ gw.sent[1].params = request.query_params
            /\ request.body # EmptyBody => gw.sent[1].content = {request.body}
            /\ ItemsOfDict(gw.sent[1].headers) =
                    {h \in Items(request.headers) : h[1] # "host"}
            /\ \A u \in gw.target_service : \A p \in gw.service_path :
                    gw.sent[1].url = [base |-> u, path |-> p]

(* C19 as stated: when the backend returns a response to a dispatched      *)
(* request, the gateway's response has that status code, that body and     *)
(* those headers.                                                          *)
C19_RelaysResponse ==
    (gw.op = "proxy" /\ Len(gw.sent) = 1) =>
        \A b \in gw.behaviour : \A r \in b.response :
            /\ gw.status_code = r.status_code
            /\ gw.body = r.content
            /\ ItemsOfDict(gw.headers) = Items(r.headers)

(* C20 as stated: the aggregate health check sends a probe GET             *)
(* {service_url}/health to the backend of every declared route, answers    *)
(* 200 with one entry per declared route, and an entry is "healthy"        *)
(* exactly when that backend answers such a probe with 200.                *)
C20_HealthProbesEveryRoute ==
    gw.op = "health" =>
        /\ gw.status_code = 200
        /\ Items(gw.sent) =
                {Probe(SERVICE_ROUTES[i].service_url) : i \in 1..Len(SERVICE_ROUTES)}
        /\ \A services_health \in gw.services : \A answers \in gw.answers :
            /\ DOMAIN services_health =
                    {SERVICE_ROUTES[i].route_prefix : i \in 1..Len(SERVICE_ROUTES)}
            /\ \A i \in 1..Len(SERVICE_ROUTES) :
                    services_health[SERVICE_ROUTES[i].route_prefix] =
                        IF answers[i] = "200" THEN "healthy" ELSE "unhealthy"

----------------------------------------------------------------------------
(* C23: verify checks in the order decode, session record, identity        *)
(* record, active flag: a token that decodes and equals its subject's      *)
(* session record while the identity record is missing is answered 404,    *)
(* and a token that decodes while the session record is absent or differs  *)
(* is answered 401, also when the identity record is missing.              *)
IdentityMissing(token) == get(users, UUID(SubjectOf(token))) = {}

C23_VerifyCheckOrder ==
    /\ \A token \in Presentable :
        /\ (SignatureValid(token) /\ Unexpired(token) /\ SessionMatches(token)
                /\ IdentityMissing(token)) => StatusOfVerify(token) = 404
        /\ (SignatureValid(token) /\ Unexpired(token) /\ ~SessionMatches(token))
                => StatusOfVerify(token) = 401
        /\ ~(SignatureValid(token) /\ Unexpired(token)) => StatusOfVerify(token) = 401
    /\ resp.op = "verify" =>
        \A token \in resp.presented :
            /\ resp.status = 404 =>
                    SessionMatches(token) /\ IdentityMissing(token)
            /\ (IdentityMissing(token) /\ ~SessionMatches(token)) => resp.status = 401

C23_Witness ==
    /\ resp.op = "verify"
    /\ resp.status = 404
    /\ \E token \in resp.presented : SessionMatches(token) /\ IdentityMissing(token)
    /\ \E other \in Presentable :
        /\ SignatureValid(other) /\ Unexpired(other)
        /\ IdentityMissing(other) /\ ~SessionMatches(other)

(* C25: a logout with any token that decodes succeeds and removes the      *)
(* session record of the token's subject, whether or not the record held   *)
(* that token; after a logout with a superseded token T1 the current token *)
(* T2 of the subject fails verification with 401.                          *)
C25_SupersededTokenLogsOut ==
    /\ \A t1 \in Presentable :
        (SignatureValid(t1) /\ Unexpired(t1)) =>
            LET out == logout_result(redis, t1, now) IN
            /\ out.status = 200
            /\ TokenKey(SubjectOf(t1)) \notin DOMAIN out.redis
            /\ \A t2 \in Presentable :
                SubjectOf(t2) = SubjectOf(t1) =>
                    verify_result(users, out.redis, t2, now).status = 401
    /\ (resp.op = "logout" /\ resp.status = 200) =>
        \A t1 \in resp.presented :
            /\ ~HasSession(t1)
            /\ \A t2 \in Presentable :
                SubjectOf(t2) = SubjectOf(t1) => StatusOfVerify(t2) = 401

C25_Witness ==
    /\ resp.op = "logout"
    /\ resp.status = 200
    /\ \E t1 \in resp.presented : \E t2 \in issued :
        /\ SubjectOf(t2) = SubjectOf(t1)
        /\ t1.payload.exp < t2.payload.exp
        /\ t1 \in revoked
        /\ t2 \notin revoked
        /\ SignatureValid(t2) /\ Unexpired(t2)
        /\ \E u \in users : u.id = UUID(SubjectOf(t2)) /\ u.is_active
        /\ StatusOfVerify(t2) = 401

(* C26 as stated: whatever registrations have succeeded, a login with the  *)
(* email and the password of an active identity record succeeds with a     *)
(* token whose subject is the id of that record.                           *)
C26_EmailLoginReachesOwner ==
    \A u \in users : \A password \in Passwords :
        (u.is_active /\ verify_password(password, u.password_hash)) =>
            LET out == login_result(users, redis,
                           [username |-> u.email, password |-> password], now)
            IN /\ out.status = 200
               /\ \A token \in out.token : SubjectOf(token) = StrOfId(u.id)

(* C28 as stated: a route prefix matches a request path only at a segment  *)
(* boundary: whenever a dispatch resolves to a backend, what is left of    *)
(* the path after the prefix is empty or begins with "/".                  *)
C28_MatchAtSegmentBoundary ==
    (gw.op = "proxy" /\ gw.target_service # {}) =>
        \A service_path \in gw.service_path :
            service_path = << >> \/ service_path[1] = "/"

(* C21 as stated: verify behaves as one atomic operation: whenever a       *)
(* verify request is answered with the identity (200), there was an        *)
(* instant between its invocation and its answer at which the session      *)
(* record equalled the presented token and the identity record was present *)
(* and active.                                                             *)
C21_VerifyLinearizable ==
    \A w \in Workers :
        (vfy[w].pc = "done" /\ vfy[w].status = 200) => vfy[w].coincided

(* C22: the counters of MetricsMiddleware lose no update: at every instant *)
(* request_count is the number of dispatches that have started and         *)
(* request_duration_sum the sum of the durations of those that have        *)
(* finished, so that once all N have finished the count is N and the sum   *)
(* is the sum of the N durations; the count is at least 1 whenever the     *)
(* average is computed.                                                    *)
Started == {i \in 1..MaxRequests : metrics.dispatch[i].pc # "idle"}
Finished == {i \in 1..MaxRequests : metrics.dispatch[i].pc = "done"}

RECURSIVE DurationsUpTo(_)
DurationsUpTo(n) ==
    IF n = 0 THEN 0
    ELSE DurationsUpTo(n - 1)
            + (IF n \in Finished THEN metrics.dispatch[n].duration ELSE 0)

C22_MetricsLoseNoUpdate ==
    /\ metrics.request_count = Cardinality(Started)
    /\ metrics.request_duration_sum = DurationsUpTo(MaxRequests)
    /\ Finished = 1..MaxRequests =>
        /\ metrics.request_count = MaxRequests
        /\ metrics.request_duration_sum = DurationsUpTo(MaxRequests)
    /\ \A i \in Finished :
        /\ metrics.dispatch[i].raised = {}
        /\ metrics.dispatch[i].X_Average_Duration # {}
        /\ \A n \in metrics.dispatch[i].X_Request_Count : n >= 1

C22_Witness ==
    /\ Finished = 1..MaxRequests
    /\ metrics.request_count = MaxRequests
    /\ \E i, j \in Finished :
        /\ i # j
        /\ metrics.dispatch[i].duration # metrics.dispatch[j].duration
        /\ metrics.dispatch[i].X_Request_Count = {MaxRequests}
        /\ metrics.dispatch[j].X_Request_Count = {MaxRequests}

(* C27 as stated: a login that is answered with an error (401, or 500 when *)
(* the write of the session record fails) leaves the session store and the *)
(* identity records, last_login included, as they were.                    *)
C27_FailedLoginChangesNothing ==
    \A body \in SessionLoginBodies :
        \A out \in {login_result(users, redis, body, now),
                    login_result_setex_raises(users, redis, body, now)} :
            out.status # 200 => out.users = users /\ out.redis = redis

(* C24: the session store changes only in a step that is a login answered *)
(* 200, a logout answered 200, or the passing of time, and time only       *)
(* removes records; register, verify, /me, a login answered with an error  *)
(* and a rejected logout leave every session record as it was; verify,     *)
(* /me and logout leave the credential store as it was.                    *)
C24_SessionStoreFrame ==
    [][ /\ redis' # redis =>
             \/ resp'.op = "login" /\ resp'.status = 200
             \/ resp'.op = "logout" /\ resp'.status = 200
             \/ now' # now
        /\ now' # now =>
             \A key \in DOMAIN redis' : key \in DOMAIN redis /\ redis'[key] = redis[key]
        /\ (\/ resp'.op \in {"register", "verify", "me"}
            \/ resp'.op \in {"login", "logout"} /\ resp'.status # 200) =>
                redis' = redis
        /\ resp'.op \in {"verify", "me", "logout"} => users' = users
      ]_vars

C24_Witness ==
    /\ resp.op = "logout"
    /\ resp.status = 401
    /\ \E token \in resp.presented : HasSession(token) /\ ~SignatureValid(token)
    /\ \E u \in users : u.last_login # {}

====
